---- MODULE Spec2Model ----
(***************************************************************************)
(* The Pomodoro screen of src/app/index.tsx (PomodoroScreen): the timer    *)
(* state machine, the settings dialog and the task store.  One action per  *)
(* event handler or effect.  React commits a handler's batched state       *)
(* updates in one render and runs the effects of that render before the    *)
(* next event is handled, so a handler reads the committed state and its   *)
(* updates are one step; the interval the timer effect sets is part of the *)
(* state, with the timeLeft its callback captured.  The phase-completion   *)
(* branch of the timer effect is a step of its own: the render with        *)
(* timeLeft = 0 is committed (and shown) before the effect runs, and no    *)
(* other event is handled before it.                                       *)
(*                                                                         *)
(* The store is the SQLite database behind expo-sqlite: user_version, the  *)
(* tasks table and its rows.  An async function is a call in flight that   *)
(* takes one step per await; each await may fail, and the store may run    *)
(* the statements of different calls, and resume the calls, in any order.  *)
(***************************************************************************)
EXTENDS Integers, Sequences, FiniteSets, Bags, TLC

VARIABLES
    timerType,            \* useState timerType
    timerDurations,       \* useState timerDurations (seconds per timer type)
    timeLeft,             \* useState timeLeft (seconds)
    isActive,             \* useState isActive
    pomodoroCount,        \* useState pomodoroCount
    isMuted,              \* useState isMuted
    settingsVisible,      \* useState settingsVisible
    prevSettingsVisible,  \* useRef prevSettingsVisible
    tempTimerDurations,   \* useState tempTimerDurations (minutes, as text)
    vibrated,             \* observer: the last step called Vibration.vibrate
    lastOp,               \* observer: the handler or effect that made the last step
    obs,                  \* observer: the countdown since the last fresh start
    interval,             \* the timer effect's setInterval: <<timeLeft captured>>, or <<>>
    app,                  \* SQLiteProvider: "init" (onInit runs), "failed", "mounted"
    mig,                  \* migrateDbIfNeeded: its position and currentDbVersion
    userVersion,          \* the store: PRAGMA user_version
    tableExists,          \* the store: the tasks table is created
    rows,                 \* the store: the rows of tasks, in insertion order
    now,                  \* the store: CURRENT_TIMESTAMP, in seconds
    tasks,                \* useState tasks
    calls,                \* the addTask, loadTasks and fetchTasks calls in flight
    uncaught,             \* observer: a promise was rejected with no handler
    added                 \* observer: the ids of the rows addTask appended to tasks

timerVars == <<timerType, timerDurations, timeLeft, isActive, pomodoroCount, isMuted,
               settingsVisible, prevSettingsVisible, tempTimerDurations, interval>>

storeVars == <<app, mig, userVersion, tableExists, rows, now, tasks, calls, uncaught,
               added>>

vars == <<timerType, timerDurations, timeLeft, isActive, pomodoroCount, isMuted,
          settingsVisible, prevSettingsVisible, tempTimerDurations, vibrated,
          lastOp, obs, interval, app, mig, userVersion, tableExists, rows, now,
          tasks, calls, uncaught, added>>

\* ------------------------------------------------------------------ bounds

\* the timer is not started once this many pomodoros are counted
MaxPomodoroCount == 1

\* the same, where every step of a countdown is taken under fairness
MaxLivePomodoros == 2
\* the same, where the countdowns run with the settings left alone
MaxCountdownPomodoros == 5
\* the length of the texts enumerated over Alphabet
MaxTextLen == 2
\* a countdown is followed to its end from at most this many seconds
MaxFullCountdown == 60
\* a longer countdown is followed for this many ticks below a default duration
MaxPartialTicks == 2
\* addTask is not called once the table would hold more rows than this
MaxRows == 2
\* addTask and fetchTasks are not called with this many calls in flight
MaxCalls == 1
\* CURRENT_TIMESTAMP, in seconds after the first launch, goes no further
MaxNow == 1
\* the minutes of the longest pomodoro whose time left is rendered
MaxMinutes == 101

\* ------------------------------------------------------------------ constants

TimerTypes == {"POMODORO", "SHORT_BREAK", "LONG_BREAK"}

SecondsPerMinute == 60

INITIAL_TIMER_TYPES ==
    [t \in TimerTypes |->
        CASE t = "POMODORO"    -> 25 * SecondsPerMinute
          [] t = "SHORT_BREAK" -> 5 * SecondsPerMinute
          [] t = "LONG_BREAK"  -> 15 * SecondsPerMinute]

\* ------------------------------------------------------------------ text

Digits == <<"0", "1", "2", "3", "4", "5", "6", "7", "8", "9">>

IsDigit(c) == \E i \in 1..10 : Digits[i] = c

DigitValue(c) == (CHOOSE i \in 1..10 : Digits[i] = c) - 1

IsWhiteSpace(c) == c = " "

\* Number.prototype.toString of a non-negative integer
RECURSIVE NatToString(_)
NatToString(n) ==
    IF n < 10 THEN <<Digits[n + 1]>>
    ELSE NatToString(n \div 10) \o <<Digits[(n % 10) + 1]>>

\* the decimal digits of r / den for 0 <= r < den, while the division terminates
RECURSIVE FractionDigits(_, _)
FractionDigits(r, den) ==
    IF r = 0 THEN <<>>
    ELSE <<Digits[((r * 10) \div den) + 1]>> \o FractionDigits((r * 10) % den, den)

\* a draft that shows the seconds themselves
MinutesToString_Seconds(seconds) == NatToString(seconds)

\* (seconds / 60).toString() for seconds >= 0
MinutesToString(seconds) ==
    LET q == seconds \div SecondsPerMinute
        r == seconds % SecondsPerMinute
    IN  IF r = 0 THEN NatToString(q)
        ELSE NatToString(q) \o <<".">> \o FractionDigits(r, SecondsPerMinute)

RECURSIVE SkipWhiteSpace(_)
SkipWhiteSpace(s) ==
    IF s # <<>> /\ IsWhiteSpace(Head(s)) THEN SkipWhiteSpace(Tail(s)) ELSE s

\* the value of the longest prefix of decimal digits of s, after acc
RECURSIVE DigitPrefixValue(_, _)
DigitPrefixValue(s, acc) ==
    IF s # <<>> /\ IsDigit(Head(s))
    THEN DigitPrefixValue(Tail(s), acc * 10 + DigitValue(Head(s)))
    ELSE acc

NaN == [isNaN |-> TRUE, value |-> 0]

\* parseInt(text, 10): leading white space, an optional sign, then digits;
\* NaN when no digit follows
parseInt(text) ==
    LET s    == SkipWhiteSpace(text)
        neg  == s # <<>> /\ Head(s) = "-"
        body == IF s # <<>> /\ Head(s) \in {"-", "+"} THEN Tail(s) ELSE s
    IN  IF body = <<>> \/ ~IsDigit(Head(body)) THEN NaN
        ELSE [isNaN |-> FALSE,
              value |-> IF neg THEN 0 - DigitPrefixValue(body, 0)
                        ELSE DigitPrefixValue(body, 0)]

\* the edits made in the settings dialog: a duration field and the text typed
Edits ==
    { <<"POMODORO", <<"0">> >>, <<"POMODORO", <<"1">> >>,
      <<"POMODORO", <<"a", "b", "c">> >>,
      <<"SHORT_BREAK", <<"0">> >>, <<"SHORT_BREAK", <<>> >>,
      <<"LONG_BREAK", <<"-", "5">> >> }

Alphabet == {"1", "-", "a"}

\* every text over Alphabet of at most MaxTextLen characters
BoundedTexts == UNION { [1..n -> Alphabet] : n \in 0..MaxTextLen }

\* the draft texts a settings dialog is saved with
TextInputs ==
    BoundedTexts \cup { <<"0">>, <<"-", "5">>, <<"a", "b", "c">>, <<" ", "1">>, <<" ">> }

\* the seconds passed to handleDurationChange
DurationInputs == {0, 30}

\* ------------------------------------------------------------------ state

NoTarget == "-"

\* a step by handler or effect name, its timer type argument, and for
\* switchTimerType the timer type and isActive it was called in
OpFrom(name, type, wasType, wasActive) ==
    [op |-> name, type |-> type, wasType |-> wasType, wasActive |-> wasActive,
     arg |-> <<>>]

Op(name, type) == OpFrom(name, type, NoTarget, FALSE)

\* for addTask the name it was called with
OpArg(name, arg) == [Op(name, NoTarget) EXCEPT !.arg = arg]

ObsOff == [on |-> FALSE, D |-> 0, ticks |-> 0, fired |-> 0]

DATABASE_VERSION == 1

MigDone == [pc |-> "done", currentDbVersion |-> DATABASE_VERSION]

\* the screen mounted on a migrated, empty store, its first load finished
StoreSettled ==
    /\ app = "mounted"
    /\ mig = MigDone
    /\ userVersion = DATABASE_VERSION
    /\ tableExists = TRUE
    /\ rows = <<>>
    /\ now = 0
    /\ tasks = <<>>
    /\ calls = EmptyBag
    /\ uncaught = FALSE
    /\ added = {}

Init ==
    /\ timerType = "POMODORO"
    /\ timerDurations = INITIAL_TIMER_TYPES
    /\ timeLeft = INITIAL_TIMER_TYPES["POMODORO"]
    /\ isActive = FALSE
    /\ pomodoroCount = 0
    /\ isMuted = FALSE
    /\ settingsVisible = FALSE
    /\ prevSettingsVisible = FALSE
    /\ tempTimerDurations = [t \in TimerTypes |-> MinutesToString(INITIAL_TIMER_TYPES[t])]
    /\ vibrated = FALSE
    /\ lastOp = Op("init", NoTarget)
    /\ obs = ObsOff
    /\ interval = <<>>
    /\ StoreSettled

\* the timer effect's completion branch is due: no event is handled before it
CompletionPending == isActive /\ timeLeft = 0

\* ------------------------------------------------------------------ timer

\* the exploration bound on ticks: short countdowns in full, long ones begun
TickExplored(t) ==
    \/ t <= MaxFullCountdown
    \/ \E ty \in TimerTypes :
          /\ INITIAL_TIMER_TYPES[ty] - t >= 0
          /\ INITIAL_TIMER_TYPES[ty] - t < MaxPartialTicks

\* an effect whose cleanup leaves the interval of a stopped timer in place
timerEffectInterval_NoCleanup(prev, active, left) ==
    IF active /\ left > 0 THEN <<left>> ELSE prev

\* the timer effect after a render: its cleanup clears the interval, and a
\* new one, capturing timeLeft, is set while isActive && timeLeft > 0
timerEffectInterval(prev, active, left) ==
    IF active /\ left > 0 THEN <<left>> ELSE <<>>

\* a callback that counts two seconds for one
TickedTimeLeft_Double(left) == left - 2

\* a callback that sets the time it captured
TickedTimeLeft_Stuck(left) == left

\* the time the interval callback sets
TickedTimeLeft(left) == left - 1

\* the interval callback of the timer effect: setTimeLeft(timeLeft - 1)
tick ==
    /\ interval # <<>>
    /\ timeLeft' = TickedTimeLeft(interval[1])
    /\ vibrated' = FALSE
    /\ lastOp' = Op("tick", NoTarget)
    /\ obs' = IF obs.on THEN [obs EXCEPT !.ticks = @ + 1] ELSE obs
    /\ UNCHANGED <<timerType, timerDurations, isActive, pomodoroCount, isMuted,
                   settingsVisible, prevSettingsVisible, tempTimerDurations>>
    /\ interval' = timerEffectInterval(interval, isActive', timeLeft')
    /\ UNCHANGED storeVars

\* the long break decided on the count before its increment
NextTimerType_StaleCount(type, newCount) ==
    IF type = "POMODORO"
    THEN IF (newCount - 1) % 4 = 0 THEN "LONG_BREAK" ELSE "SHORT_BREAK"
    ELSE "POMODORO"

\* the timer type that follows a completed one, with the new pomodoro count
NextTimerType(type, newCount) ==
    IF type = "POMODORO"
    THEN IF newCount % 4 = 0 THEN "LONG_BREAK" ELSE "SHORT_BREAK"
    ELSE "POMODORO"

\* a count that every completion increments, a break's included
NewPomodoroCount_AnyType(type, count) == count + 1

\* the pomodoro count after the timer of this type completes
NewPomodoroCount(type, count) ==
    IF type = "POMODORO" THEN count + 1 ELSE count

\* the next timer left at its default duration, not at the committed one
NextTimeLeft_Default(durations, next) == INITIAL_TIMER_TYPES[next]

\* the next timer left at zero, where the completed one ended
NextTimeLeft_Zero(durations, next) == 0

\* the time the completed timer is left with: the next type's duration
NextTimeLeft(durations, next) == durations[next]

\* a completion that vibrates whether muted or not
vibrate_Always(muted) == TRUE

\* if (!isMuted) Vibration.vibrate(...): whether the completion vibrates
vibrate(muted) == ~muted

\* the timer effect's branch isActive && timeLeft === 0
phaseCompletion ==
    /\ isActive /\ timeLeft = 0
    /\ vibrated' = vibrate(isMuted)
    /\ pomodoroCount' = NewPomodoroCount(timerType, pomodoroCount)
    /\ timerType' = NextTimerType(timerType, pomodoroCount')
    /\ timeLeft' = NextTimeLeft(timerDurations, timerType')
    /\ isActive' = FALSE
    /\ lastOp' = Op("phaseCompletion", NoTarget)
    /\ obs' = IF obs.on THEN [obs EXCEPT !.fired = @ + 1] ELSE obs
    /\ UNCHANGED <<timerDurations, isMuted, settingsVisible, prevSettingsVisible,
                   tempTimerDurations>>
    /\ interval' = timerEffectInterval(interval, isActive', timeLeft')
    /\ UNCHANGED storeVars

\* a start that begins the countdown again from the full duration
toggleTimer_Restarts ==
    /\ ~CompletionPending
    /\ isActive' = ~isActive
    /\ timeLeft' = IF isActive THEN timeLeft ELSE timerDurations[timerType]
    /\ vibrated' = FALSE
    /\ lastOp' = Op("toggleTimer", NoTarget)
    /\ obs' = IF ~isActive /\ timeLeft = timerDurations[timerType] /\ timeLeft > 0
              THEN [on |-> TRUE, D |-> timeLeft, ticks |-> 0, fired |-> 0]
              ELSE ObsOff
    /\ UNCHANGED <<timerType, timerDurations, pomodoroCount, isMuted,
                   settingsVisible, prevSettingsVisible, tempTimerDurations>>
    /\ interval' = timerEffectInterval(interval, isActive', timeLeft')
    /\ UNCHANGED storeVars

\* the Start / Pause button: setIsActive(!isActive)
toggleTimer ==
    /\ ~CompletionPending
    /\ isActive' = ~isActive
    /\ vibrated' = FALSE
    /\ lastOp' = Op("toggleTimer", NoTarget)
    /\ obs' = IF ~isActive /\ timeLeft = timerDurations[timerType] /\ timeLeft > 0
              THEN [on |-> TRUE, D |-> timeLeft, ticks |-> 0, fired |-> 0]
              ELSE ObsOff
    /\ UNCHANGED <<timerType, timerDurations, timeLeft, pomodoroCount, isMuted,
                   settingsVisible, prevSettingsVisible, tempTimerDurations>>
    /\ interval' = timerEffectInterval(interval, isActive', timeLeft')
    /\ UNCHANGED storeVars

\* a reset to the default duration, not to the committed one
resetTimer_ToDefault ==
    /\ ~CompletionPending
    /\ isActive' = FALSE
    /\ timeLeft' = INITIAL_TIMER_TYPES[timerType]
    /\ vibrated' = FALSE
    /\ lastOp' = OpFrom("resetTimer", NoTarget, timerType, isActive)
    /\ obs' = ObsOff
    /\ UNCHANGED <<timerType, timerDurations, pomodoroCount, isMuted,
                   settingsVisible, prevSettingsVisible, tempTimerDurations>>
    /\ interval' = timerEffectInterval(interval, isActive', timeLeft')
    /\ UNCHANGED storeVars

\* a reset that also clears the pomodoro count
resetTimer_ClearsCount ==
    /\ ~CompletionPending
    /\ isActive' = FALSE
    /\ timeLeft' = timerDurations[timerType]
    /\ vibrated' = FALSE
    /\ lastOp' = OpFrom("resetTimer", NoTarget, timerType, isActive)
    /\ obs' = ObsOff
    /\ pomodoroCount' = 0
    /\ UNCHANGED <<timerType, timerDurations, isMuted,
                   settingsVisible, prevSettingsVisible, tempTimerDurations>>
    /\ interval' = timerEffectInterval(interval, isActive', timeLeft')
    /\ UNCHANGED storeVars

resetTimer ==
    /\ ~CompletionPending
    /\ isActive' = FALSE
    /\ timeLeft' = timerDurations[timerType]
    /\ vibrated' = FALSE
    /\ lastOp' = OpFrom("resetTimer", NoTarget, timerType, isActive)
    /\ obs' = ObsOff
    /\ UNCHANGED <<timerType, timerDurations, pomodoroCount, isMuted,
                   settingsVisible, prevSettingsVisible, tempTimerDurations>>
    /\ interval' = timerEffectInterval(interval, isActive', timeLeft')
    /\ UNCHANGED storeVars

\* a switch that leaves a running timer running
switchTimerType_KeepsRunning(type) ==
    /\ ~CompletionPending
    /\ isActive' = isActive
    /\ timerType' = type
    /\ timeLeft' = timerDurations[type]
    /\ vibrated' = FALSE
    /\ lastOp' = OpFrom("switchTimerType", type, timerType, isActive)
    /\ obs' = ObsOff
    /\ UNCHANGED <<timerDurations, pomodoroCount, isMuted,
                   settingsVisible, prevSettingsVisible, tempTimerDurations>>
    /\ interval' = timerEffectInterval(interval, isActive', timeLeft')
    /\ UNCHANGED storeVars

\* a switch that credits the pomodoro it interrupts
switchTimerType_Credits(type) ==
    /\ ~CompletionPending
    /\ isActive' = FALSE
    /\ timerType' = type
    /\ timeLeft' = timerDurations[type]
    /\ pomodoroCount' = IF isActive /\ timerType = "POMODORO"
                         THEN pomodoroCount + 1 ELSE pomodoroCount
    /\ vibrated' = FALSE
    /\ lastOp' = OpFrom("switchTimerType", type, timerType, isActive)
    /\ obs' = ObsOff
    /\ UNCHANGED <<timerDurations, isMuted,
                   settingsVisible, prevSettingsVisible, tempTimerDurations>>
    /\ interval' = timerEffectInterval(interval, isActive', timeLeft')
    /\ UNCHANGED storeVars

switchTimerType(type) ==
    /\ ~CompletionPending
    /\ isActive' = FALSE
    /\ timerType' = type
    /\ timeLeft' = timerDurations[type]
    /\ vibrated' = FALSE
    /\ lastOp' = OpFrom("switchTimerType", type, timerType, isActive)
    /\ obs' = ObsOff
    /\ UNCHANGED <<timerDurations, pomodoroCount, isMuted,
                   settingsVisible, prevSettingsVisible, tempTimerDurations>>
    /\ interval' = timerEffectInterval(interval, isActive', timeLeft')
    /\ UNCHANGED storeVars

\* onPress / onValueChange: setIsMuted(!isMuted)
toggleMute ==
    /\ ~CompletionPending
    /\ isMuted' = ~isMuted
    /\ vibrated' = FALSE
    /\ lastOp' = Op("toggleMute", NoTarget)
    /\ obs' = ObsOff
    /\ UNCHANGED <<timerType, timerDurations, timeLeft, isActive, pomodoroCount,
                   settingsVisible, prevSettingsVisible, tempTimerDurations>>
    /\ interval' = timerEffectInterval(interval, isActive', timeLeft')
    /\ UNCHANGED storeVars

\* getProgress: the ratio (totalTime - timeLeft) / totalTime as numerator and
\* denominator, and 0 when totalTime === 0
getProgress ==
    LET totalTime == timerDurations[timerType]
    IN  IF totalTime = 0
        THEN [num |-> 0, den |-> 1]
        ELSE [num |-> totalTime - timeLeft, den |-> totalTime]

\* a padStart that pads nothing
padStart_NoPad(s, targetLength, c) == s

\* String.prototype.padStart with a one-character pad
padStart(s, targetLength, c) ==
    IF Len(s) >= targetLength THEN s
    ELSE [i \in 1..(targetLength - Len(s)) |-> c] \o s

\* formatTime: `${minutes padStart(2, "0")}:${remainingSeconds padStart(2, "0")}`
formatTime(seconds) ==
    LET minutes == seconds \div SecondsPerMinute
        remainingSeconds == seconds % SecondsPerMinute
    IN  padStart(NatToString(minutes), 2, "0") \o <<":">>
          \o padStart(NatToString(remainingSeconds), 2, "0")

\* the render of the timer text: {formatTime(timeLeft)}
render ==
    /\ vibrated' = FALSE
    /\ lastOp' = OpArg("formatTime", formatTime(timeLeft))
    /\ obs' = obs
    /\ UNCHANGED timerVars
    /\ UNCHANGED storeVars

\* ------------------------------------------------------------------ settings

\* a dialog that opens on the draft it was closed with
openSettings_KeepsDraft ==
    /\ ~CompletionPending
    /\ ~settingsVisible
    /\ settingsVisible' = TRUE
    /\ tempTimerDurations' = tempTimerDurations
    /\ prevSettingsVisible' = TRUE
    /\ vibrated' = FALSE
    /\ lastOp' = Op("openSettings", NoTarget)
    /\ obs' = ObsOff
    /\ UNCHANGED <<timerType, timerDurations, timeLeft, isActive, pomodoroCount, isMuted>>
    /\ UNCHANGED interval
    /\ UNCHANGED storeVars

\* the cog button, setSettingsVisible(true), and the effect of that render:
\* the dialog just opened, so the draft is set from the committed durations
openSettings ==
    /\ ~CompletionPending
    /\ ~settingsVisible
    /\ settingsVisible' = TRUE
    /\ tempTimerDurations' =
          IF ~prevSettingsVisible
          THEN [t \in TimerTypes |-> MinutesToString(timerDurations[t])]
          ELSE tempTimerDurations
    /\ prevSettingsVisible' = TRUE
    /\ vibrated' = FALSE
    /\ lastOp' = Op("openSettings", NoTarget)
    /\ obs' = ObsOff
    /\ UNCHANGED <<timerType, timerDurations, timeLeft, isActive, pomodoroCount, isMuted>>
    /\ UNCHANGED interval
    /\ UNCHANGED storeVars

handleTempDurationChange(type, text) ==
    /\ ~CompletionPending
    /\ settingsVisible
    /\ tempTimerDurations' = [tempTimerDurations EXCEPT ![type] = text]
    /\ vibrated' = FALSE
    /\ lastOp' = Op("handleTempDurationChange", type)
    /\ obs' = ObsOff
    /\ UNCHANGED <<timerType, timerDurations, timeLeft, isActive, pomodoroCount, isMuted,
                   settingsVisible, prevSettingsVisible>>
    /\ UNCHANGED interval
    /\ UNCHANGED storeVars

\* the seconds one duration field commits
ParsedDuration(type, minutesString) ==
    LET parsedMinutes == parseInt(minutesString)
    IN  IF ~parsedMinutes.isNaN /\ parsedMinutes.value >= 0
        THEN parsedMinutes.value * SecondsPerMinute
        ELSE INITIAL_TIMER_TYPES[type]

newDurationsInSeconds(temp) ==
    [t \in TimerTypes |-> ParsedDuration(t, temp[t])]

\* what handleSaveSettings leaves in timeLeft
SavedTimeLeft(active, left, newDurations, type) ==
    IF ~active THEN newDurations[type] ELSE left

\* Save, and the effect of the render that closes the dialog
handleSaveSettings ==
    /\ ~CompletionPending
    /\ settingsVisible
    /\ timerDurations' = newDurationsInSeconds(tempTimerDurations)
    /\ timeLeft' = SavedTimeLeft(isActive, timeLeft, timerDurations', timerType)
    /\ settingsVisible' = FALSE
    /\ prevSettingsVisible' = FALSE
    /\ vibrated' = FALSE
    /\ lastOp' = Op("handleSaveSettings", NoTarget)
    /\ obs' = ObsOff
    /\ UNCHANGED <<timerType, isActive, pomodoroCount, isMuted, tempTimerDurations>>
    /\ interval' = timerEffectInterval(interval, isActive', timeLeft')
    /\ UNCHANGED storeVars

\* Cancel or dismiss, and the effect of the render that closes the dialog
handleCancelSettings ==
    /\ ~CompletionPending
    /\ settingsVisible
    /\ settingsVisible' = FALSE
    /\ prevSettingsVisible' = FALSE
    /\ vibrated' = FALSE
    /\ lastOp' = Op("handleCancelSettings", NoTarget)
    /\ obs' = ObsOff
    /\ UNCHANGED <<timerType, timerDurations, timeLeft, isActive, pomodoroCount, isMuted,
                   tempTimerDurations>>
    /\ UNCHANGED interval
    /\ UNCHANGED storeVars

\* what handleDurationChange leaves in timeLeft
ChangedTimeLeft(active, left, current, type, durationInSeconds) ==
    IF current = type /\ ~active THEN durationInSeconds ELSE left

\* a handler that no element of the screen calls
handleDurationChange(type, durationInSeconds) ==
    /\ ~CompletionPending
    /\ timerDurations' = [timerDurations EXCEPT ![type] = durationInSeconds]
    /\ timeLeft' = ChangedTimeLeft(isActive, timeLeft, timerType, type, durationInSeconds)
    /\ vibrated' = FALSE
    /\ lastOp' = Op("handleDurationChange", type)
    /\ obs' = ObsOff
    /\ UNCHANGED <<timerType, isActive, pomodoroCount, isMuted,
                   settingsVisible, prevSettingsVisible, tempTimerDurations>>
    /\ interval' = timerEffectInterval(interval, isActive', timeLeft')
    /\ UNCHANGED storeVars

\* ------------------------------------------------------------------ store

\* String.prototype.trim, on the text left of its leading white space
RECURSIVE TrimEnd(_)
TrimEnd(s) ==
    IF s # <<>> /\ IsWhiteSpace(s[Len(s)])
    THEN TrimEnd(SubSeq(s, 1, Len(s) - 1))
    ELSE s

\* name.trim()
trim(s) == TrimEnd(SkipWhiteSpace(s))

\* the names given to addTask
TaskNames == { <<>>, <<" ">>, <<" ", "a", " ">> }

\* addTask(name, priority = 1): the priority of a task added with the button
DefaultPriority == 1

\* the priorities given to addTask
Priorities == {DefaultPriority, 2}

\* a name bound to the INSERT as it was typed
InsertedName_Raw(name) == name

\* the name bound to the INSERT
InsertedName(name) == trim(name)

\* INSERT INTO tasks (name, priority): the other columns take their defaults
NewRow(id, name, priority, createdAt) ==
    [id |-> id, name |-> name, completed |-> 0, priority |-> priority,
     pomodoroSessions |-> 0, createdAt |-> createdAt]

\* AUTOINCREMENT on a table no row is deleted from
lastInsertRowId(rs) == Len(rs) + 1

\* ORDER BY priority DESC, createdAt ASC: a may come right before b
OrderedBefore(a, b) ==
    \/ a.priority > b.priority
    \/ a.priority = b.priority /\ a.createdAt <= b.createdAt

\* a SELECT with no ORDER BY: the rows in the order of their rowid
SelectAll_Unordered(rs) == {rs}

\* SELECT * FROM tasks ORDER BY priority DESC, createdAt ASC: every result
\* the store may return (rows that tie may come in either order)
SelectAll(rs) ==
    LET n == Len(rs)
        Perms == { p \in [1..n -> 1..n] : \A i, j \in 1..n : i # j => p[i] # p[j] }
    IN  { [i \in 1..n |-> rs[p[i]]] :
            p \in { q \in Perms :
                      \A i \in 1..n : i < n => OrderedBefore(rs[q[i]], rs[q[i + 1]]) } }

\* { ...task, completed: !!task.completed }
ToTask(row) == [row EXCEPT !.completed = (row.completed # 0)]

\* result.map(task => ({ ...task, completed: !!task.completed }))
ToTasks(result) == [i \in 1..Len(result) |-> ToTask(result[i])]

Call(kind, pc, name, priority) ==
    [kind |-> kind, pc |-> pc, name |-> name, priority |-> priority,
     id |-> 0, result |-> <<>>]

\* the calls in flight are a bag: calls with the same arguments at the same
\* position are not told apart
Issued(c) == calls (+) SetToBag({c})

Ended(c) == calls (-) SetToBag({c})

Moved(c, d) == (calls (-) SetToBag({c})) (+) SetToBag({d})

InFlight == BagToSet(calls)

InsertsPending ==
    LET Pending == { c \in InFlight : c.pc = "insert" }
        RECURSIVE Sum(_)
        Sum(S) == IF S = {} THEN 0
                  ELSE LET c == CHOOSE x \in S : TRUE
                       IN  CopiesIn(c, calls) + Sum(S \ {c})
    IN  Sum(Pending)

\* the exploration bound on calls: the calls in flight and the rows they add
CallExplored == BagCardinality(calls) < MaxCalls

InsertExplored == Len(rows) + InsertsPending < MaxRows

MigStart == [pc |-> "read", currentDbVersion |-> 0]

\* a version check that takes every store for migrated
UpToDate_Always(currentDbVersion) == currentDbVersion >= 0

\* if (currentDbVersion >= DATABASE_VERSION) return
UpToDate(currentDbVersion) == currentDbVersion >= DATABASE_VERSION

\* a step of a call that stops the timer as it renders the screen again
StoreStep_StopsTimer(name) ==
    /\ vibrated' = FALSE
    /\ lastOp' = Op(name, NoTarget)
    /\ obs' = obs
    /\ isActive' = FALSE
    /\ interval' = <<>>
    /\ UNCHANGED <<timerType, timerDurations, timeLeft, pomodoroCount, isMuted,
                   settingsVisible, prevSettingsVisible, tempTimerDurations>>

\* what a step of the migration or of a call leaves alone
StoreStep(name) ==
    /\ vibrated' = FALSE
    /\ lastOp' = Op(name, NoTarget)
    /\ obs' = obs
    /\ UNCHANGED timerVars

\* onInit rejects: SQLiteProvider throws, the screen is not mounted
initFails(name) ==
    /\ app' = "failed"
    /\ StoreStep(name)
    /\ UNCHANGED <<mig, userVersion, tableExists, rows, now, tasks, calls, uncaught, added>>

\* migrateDbIfNeeded: PRAGMA user_version is read, and the early return
migrateRead ==
    /\ app = "init" /\ mig.pc = "read"
    /\ \/ /\ mig' = [pc |-> IF UpToDate(userVersion) THEN "done"
                            ELSE IF userVersion = 0 THEN "create"
                            ELSE "setVersion",
                     currentDbVersion |-> userVersion]
          /\ StoreStep("migrateRead")
          /\ UNCHANGED <<app, userVersion, tableExists, rows, now, tasks, calls,
                         uncaught, added>>
       \/ initFails("migrateReadFailed")

\* migrateDbIfNeeded: CREATE TABLE IF NOT EXISTS tasks
migrateCreate ==
    /\ app = "init" /\ mig.pc = "create"
    /\ \/ /\ tableExists' = TRUE
          /\ mig' = [pc |-> "setVersion", currentDbVersion |-> 1]
          /\ StoreStep("migrateCreate")
          /\ UNCHANGED <<app, userVersion, rows, now, tasks, calls, uncaught, added>>
       \/ initFails("migrateCreateFailed")

\* migrateDbIfNeeded: PRAGMA user_version = DATABASE_VERSION
migrateSetVersion ==
    /\ app = "init" /\ mig.pc = "setVersion"
    /\ \/ /\ userVersion' = DATABASE_VERSION
          /\ mig' = [mig EXCEPT !.pc = "done"]
          /\ StoreStep("migrateSetVersion")
          /\ UNCHANGED <<app, tableExists, rows, now, tasks, calls, uncaught, added>>
       \/ initFails("migrateSetVersionFailed")

\* onInit resolved: PomodoroScreen is rendered and its effect calls loadTasks,
\* which issues its SELECT
mount ==
    /\ app = "init" /\ mig.pc = "done"
    /\ app' = "mounted"
    /\ tasks' = <<>>
    /\ calls' = SetToBag({Call("loadTasks", "query", <<>>, 0)})
    /\ StoreStep("mount")
    /\ UNCHANGED <<mig, userVersion, tableExists, rows, now, uncaught, added>>

\* the app is closed, at any moment, and launched again: the store is kept,
\* the state of the screen and the calls in flight are not
restart ==
    /\ app' = "init"
    /\ mig' = MigStart
    /\ tasks' = <<>>
    /\ calls' = EmptyBag
    /\ uncaught' = FALSE
    /\ added' = {}
    /\ timerType' = "POMODORO"
    /\ timerDurations' = INITIAL_TIMER_TYPES
    /\ timeLeft' = INITIAL_TIMER_TYPES["POMODORO"]
    /\ isActive' = FALSE
    /\ pomodoroCount' = 0
    /\ isMuted' = FALSE
    /\ settingsVisible' = FALSE
    /\ prevSettingsVisible' = FALSE
    /\ tempTimerDurations' = [t \in TimerTypes |-> MinutesToString(INITIAL_TIMER_TYPES[t])]
    /\ interval' = <<>>
    /\ vibrated' = FALSE
    /\ lastOp' = Op("restart", NoTarget)
    /\ obs' = ObsOff
    /\ UNCHANGED <<userVersion, tableExists, rows, now>>

\* a guard that takes only the empty text for an empty name
IsBlank_Untrimmed(name) == name = <<>>

\* !name.trim()
IsBlank(name) == trim(name) = <<>>

\* addTask(name, priority), up to its first await: the INSERT is issued
addTask(name, priority) ==
    /\ app = "mounted"
    /\ ~CompletionPending
    /\ calls' = IF IsBlank(name)
                THEN calls
                ELSE Issued(Call("addTask", "insert", InsertedName(name), priority))
    /\ vibrated' = FALSE
    /\ lastOp' = OpArg("addTask", name)
    /\ obs' = obs
    /\ UNCHANGED timerVars
    /\ UNCHANGED <<app, mig, userVersion, tableExists, rows, now, tasks, uncaught, added>>

\* an addTask that puts the task on the screen as soon as it is inserted
addTaskInsert_Optimistic(c) ==
    /\ c.kind = "addTask" /\ c.pc = "insert"
    /\ \/ /\ tableExists
          /\ \E t \in {now, now + 1} :
                /\ t <= MaxNow
                /\ now' = t
                /\ rows' = Append(rows, NewRow(lastInsertRowId(rows), c.name,
                                               c.priority, t))
          /\ calls' = Moved(c, [c EXCEPT !.pc = "select", !.id = lastInsertRowId(rows)])
          /\ tasks' = Append(tasks, ToTask(rows'[Len(rows')]))
          /\ StoreStep("addTaskInsert")
          /\ UNCHANGED <<app, mig, userVersion, tableExists, uncaught, added>>
       \/ /\ calls' = Ended(c)
          /\ StoreStep("addTaskInsertFailed")
          /\ UNCHANGED <<app, mig, userVersion, tableExists, rows, now, tasks, uncaught, added>>

\* addTask: the store runs the INSERT, or fails and the catch logs the error
addTaskInsert(c) ==
    /\ c.kind = "addTask" /\ c.pc = "insert"
    /\ \/ /\ tableExists
          /\ \E t \in {now, now + 1} :
                /\ t <= MaxNow
                /\ now' = t
                /\ rows' = Append(rows, NewRow(lastInsertRowId(rows), c.name,
                                               c.priority, t))
          /\ calls' = Moved(c, [c EXCEPT !.pc = "select", !.id = lastInsertRowId(rows)])
          /\ StoreStep("addTaskInsert")
          /\ UNCHANGED <<app, mig, userVersion, tableExists, tasks, uncaught, added>>
       \/ /\ calls' = Ended(c)
          /\ StoreStep("addTaskInsertFailed")
          /\ UNCHANGED <<app, mig, userVersion, tableExists, rows, now, tasks, uncaught, added>>

\* addTask: the store returns the new row and it is appended to tasks, or the
\* SELECT fails and the catch logs the error
addTaskSelect(c) ==
    /\ c.kind = "addTask" /\ c.pc = "select"
    /\ ~CompletionPending
    /\ calls' = Ended(c)
    /\ \/ /\ tableExists
          /\ \E k \in 1..Len(rows) :
                /\ rows[k].id = c.id
                /\ tasks' = Append(tasks, ToTask(rows[k]))
          /\ added' = added \cup {c.id}
          /\ StoreStep("addTaskSelect")
       \/ /\ tasks' = tasks
          /\ added' = added
          /\ StoreStep("addTaskSelectFailed")
    /\ UNCHANGED <<app, mig, userVersion, tableExists, rows, now, uncaught>>

\* fetchTasks, up to its await: the SELECT is issued
fetchTasks ==
    /\ app = "mounted"
    /\ ~CompletionPending
    /\ calls' = Issued(Call("fetchTasks", "query", <<>>, 0))
    /\ StoreStep("fetchTasks")
    /\ UNCHANGED <<app, mig, userVersion, tableExists, rows, now, tasks, uncaught, added>>

\* a load whose rejection is caught as fetchTasks catches its own
Catches_All(kind) == TRUE

\* whether the call awaits the store inside a try / catch
Catches(kind) == kind # "loadTasks"

\* loadTasks, fetchTasks: the store runs the SELECT, or fails
tasksQuery(c) ==
    /\ c.kind \in {"loadTasks", "fetchTasks"} /\ c.pc = "query"
    /\ \/ /\ tableExists
          /\ \E result \in SelectAll(rows) :
                calls' = Moved(c, [c EXCEPT !.pc = "result", !.result = result])
          /\ StoreStep(c.kind \o "Query")
          /\ UNCHANGED uncaught
       \/ /\ calls' = Ended(c)
          /\ uncaught' = (uncaught \/ ~Catches(c.kind))
          /\ StoreStep(c.kind \o "QueryFailed")
    /\ UNCHANGED <<app, mig, userVersion, tableExists, rows, now, tasks, added>>

\* loadTasks, fetchTasks after the await: setTasks(result.map(...))
tasksResolve(c) ==
    /\ c.kind \in {"loadTasks", "fetchTasks"} /\ c.pc = "result"
    /\ ~CompletionPending
    /\ tasks' = ToTasks(c.result)
    /\ calls' = Ended(c)
    /\ StoreStep(c.kind \o "Resolve")
    /\ UNCHANGED <<app, mig, userVersion, tableExists, rows, now, uncaught, added>>

\* ------------------------------------------------------------------ specifications

\* the exploration bound on starts
StartExplored(max) == isActive \/ pomodoroCount < max

Next ==
    \/ TickExplored(timeLeft) /\ tick
    \/ phaseCompletion
    \/ StartExplored(MaxPomodoroCount) /\ toggleTimer
    \/ resetTimer
    \/ \E type \in TimerTypes : switchTimerType(type)
    \/ toggleMute
    \/ openSettings
    \/ \E e \in Edits : handleTempDurationChange(e[1], e[2])
    \/ handleSaveSettings
    \/ handleCancelSettings

\* the screen as wired: every handler an element of the screen calls
Spec == Init /\ [][Next]_vars

NextApi ==
    \/ TickExplored(timeLeft) /\ tick
    \/ phaseCompletion
    \/ StartExplored(MaxPomodoroCount) /\ toggleTimer
    \/ resetTimer
    \/ \E type \in TimerTypes : switchTimerType(type)
    \/ openSettings
    \/ handleSaveSettings
    \/ \E type \in TimerTypes, d \in DurationInputs : handleDurationChange(type, d)

\* the timer with handleDurationChange, and the dialog opened and saved unedited
SpecApi == Init /\ [][NextApi]_vars

\* durations the settings dialog commits, in minutes per timer type
MinutesConfig(p, s, l) ==
    [t \in TimerTypes |->
        CASE t = "POMODORO"    -> p * SecondsPerMinute
          [] t = "SHORT_BREAK" -> s * SecondsPerMinute
          [] t = "LONG_BREAK"  -> l * SecondsPerMinute]

CountdownConfigs ==
    { INITIAL_TIMER_TYPES, MinutesConfig(1, 1, 1), MinutesConfig(2, 1, 0) }

\* the screen with durations already committed and the dialog closed
InitCountdown ==
    /\ timerDurations \in CountdownConfigs
    /\ timerType = "POMODORO"
    /\ timeLeft = timerDurations["POMODORO"]
    /\ isActive = FALSE
    /\ pomodoroCount = 0
    /\ isMuted = FALSE
    /\ settingsVisible = FALSE
    /\ prevSettingsVisible = FALSE
    /\ tempTimerDurations = [t \in TimerTypes |-> MinutesToString(timerDurations[t])]
    /\ vibrated = FALSE
    /\ lastOp = Op("init", NoTarget)
    /\ obs = ObsOff
    /\ interval = <<>>
    /\ StoreSettled

NextCountdown ==
    \/ tick
    \/ phaseCompletion
    \/ StartExplored(MaxCountdownPomodoros) /\ toggleTimer
    \/ resetTimer
    \/ \E type \in TimerTypes : switchTimerType(type)
    \/ toggleMute

\* the timer alone: every countdown runs to its end, the settings are left alone
SpecCountdown == InitCountdown /\ [][NextCountdown]_vars

\* the settings dialog open on the initial screen, a text typed in each field
InitSave ==
    /\ timerType = "POMODORO"
    /\ timerDurations = INITIAL_TIMER_TYPES
    /\ timeLeft = INITIAL_TIMER_TYPES["POMODORO"]
    /\ isActive = FALSE
    /\ pomodoroCount = 0
    /\ isMuted = FALSE
    /\ settingsVisible = TRUE
    /\ prevSettingsVisible = TRUE
    /\ tempTimerDurations \in [TimerTypes -> TextInputs]
    /\ vibrated = FALSE
    /\ lastOp = Op("handleTempDurationChange", "POMODORO")
    /\ obs = ObsOff
    /\ interval = <<>>
    /\ StoreSettled

NextSave ==
    \/ handleSaveSettings
    \/ handleCancelSettings
    \/ openSettings

\* the settings dialog alone: save, cancel and reopen
SpecSave == InitSave /\ [][NextSave]_vars

\* the task store from the first launch on: the migration, the mount, the
\* calls of addTask and fetchTasks and their steps in the store, in any order,
\* and the app closed and launched again; the timer is left alone
InitStore ==
    /\ timerType = "POMODORO"
    /\ timerDurations = INITIAL_TIMER_TYPES
    /\ timeLeft = INITIAL_TIMER_TYPES["POMODORO"]
    /\ isActive = FALSE
    /\ pomodoroCount = 0
    /\ isMuted = FALSE
    /\ settingsVisible = FALSE
    /\ prevSettingsVisible = FALSE
    /\ tempTimerDurations = [t \in TimerTypes |-> MinutesToString(INITIAL_TIMER_TYPES[t])]
    /\ vibrated = FALSE
    /\ lastOp = Op("init", NoTarget)
    /\ obs = ObsOff
    /\ interval = <<>>
    /\ app = "init"
    /\ mig = MigStart
    /\ userVersion = 0
    /\ tableExists = FALSE
    /\ rows = <<>>
    /\ now = 0
    /\ tasks = <<>>
    /\ calls = EmptyBag
    /\ uncaught = FALSE
    /\ added = {}

NextStore ==
    \/ migrateRead
    \/ migrateCreate
    \/ migrateSetVersion
    \/ mount
    \/ restart
    \/ \E name \in TaskNames, priority \in Priorities :
          CallExplored /\ InsertExplored /\ addTask(name, priority)
    \/ \E c \in InFlight : addTaskInsert(c)
    \/ \E c \in InFlight : addTaskSelect(c)
    \/ CallExplored /\ fetchTasks
    \/ \E c \in InFlight : tasksQuery(c)
    \/ \E c \in InFlight : tasksResolve(c)

SpecStore == InitStore /\ [][NextStore]_vars

\* the screen as it is wired, timer and tasks together: a pomodoro with some
\* or little of its time left, the load of the mount in flight, the timer
\* controls and the Add button (enabled on a name that is not blank)
SecondsLeft == {INITIAL_TIMER_TYPES["POMODORO"], 2}

InitScreen ==
    /\ timerType = "POMODORO"
    /\ timerDurations = INITIAL_TIMER_TYPES
    /\ timeLeft \in SecondsLeft
    /\ isActive = FALSE
    /\ pomodoroCount = 0
    /\ isMuted = FALSE
    /\ settingsVisible = FALSE
    /\ prevSettingsVisible = FALSE
    /\ tempTimerDurations = [t \in TimerTypes |-> MinutesToString(INITIAL_TIMER_TYPES[t])]
    /\ vibrated = FALSE
    /\ lastOp = Op("mount", NoTarget)
    /\ obs = ObsOff
    /\ interval = <<>>
    /\ app = "mounted"
    /\ mig = MigDone
    /\ userVersion = DATABASE_VERSION
    /\ tableExists = TRUE
    /\ rows = <<>>
    /\ now = 0
    /\ tasks = <<>>
    /\ calls = SetToBag({Call("loadTasks", "query", <<>>, 0)})
    /\ uncaught = FALSE
    /\ added = {}

NextScreen ==
    \/ TickExplored(timeLeft) /\ tick
    \/ phaseCompletion
    \/ StartExplored(MaxPomodoroCount) /\ toggleTimer
    \/ resetTimer
    \/ \E type \in TimerTypes : switchTimerType(type)
    \/ \E name \in TaskNames :
          /\ ~IsBlank(name)
          /\ CallExplored /\ InsertExplored
          /\ addTask(name, DefaultPriority)
    \/ \E c \in InFlight : addTaskInsert(c)
    \/ \E c \in InFlight : addTaskSelect(c)
    \/ \E c \in InFlight : tasksQuery(c)
    \/ \E c \in InFlight : tasksResolve(c)

SpecScreen == InitScreen /\ [][NextScreen]_vars

\* the timer text: a pomodoro of MaxMinutes minutes, saved earlier, with any
\* of its time left, is started, paused, counted down and rendered
InitFormat ==
    /\ timerType = "POMODORO"
    /\ timerDurations = [INITIAL_TIMER_TYPES EXCEPT
                            !["POMODORO"] = MaxMinutes * SecondsPerMinute]
    /\ timeLeft \in 0..(MaxMinutes * SecondsPerMinute)
    /\ isActive = FALSE
    /\ pomodoroCount = 0
    /\ isMuted = FALSE
    /\ settingsVisible = FALSE
    /\ prevSettingsVisible = FALSE
    /\ tempTimerDurations = [t \in TimerTypes |-> MinutesToString(timerDurations[t])]
    /\ vibrated = FALSE
    /\ lastOp = Op("init", NoTarget)
    /\ obs = ObsOff
    /\ interval = <<>>
    /\ StoreSettled

NextFormat ==
    \/ render
    \/ tick
    \/ phaseCompletion
    \/ StartExplored(MaxPomodoroCount) /\ toggleTimer

SpecFormat == InitFormat /\ [][NextFormat]_vars

\* the calls of the mounted screen in flight together: the load of the mount,
\* addTask from the Add button and fetchTasks, with one call more in flight
\* than elsewhere; the store runs and resumes them in any order
RaceCalls == MaxCalls + 1

RaceCallExplored == BagCardinality(calls) < RaceCalls

InitRace ==
    /\ InitScreen
    /\ timeLeft = INITIAL_TIMER_TYPES["POMODORO"]

NextRace ==
    \/ \E name \in TaskNames :
          /\ ~IsBlank(name)
          /\ RaceCallExplored /\ InsertExplored
          /\ addTask(name, DefaultPriority)
    \/ \E c \in InFlight : addTaskInsert(c)
    \/ \E c \in InFlight : addTaskSelect(c)
    \/ RaceCallExplored /\ fetchTasks
    \/ \E c \in InFlight : tasksQuery(c)
    \/ \E c \in InFlight : tasksResolve(c)

SpecRace == InitRace /\ [][NextRace]_vars

\* durations of 0, 1 and 2 minutes, all three zero included
LiveConfigs ==
    { MinutesConfig(1, 1, 1), MinutesConfig(2, 1, 0), MinutesConfig(0, 0, 0) }

\* the edits made in the settings dialog while a countdown is followed
LiveEdits == { <<"POMODORO", <<"0">> >>, <<"SHORT_BREAK", <<"1">> >> }

InitLive ==
    /\ timerDurations \in LiveConfigs
    /\ timerType = "POMODORO"
    /\ timeLeft = timerDurations["POMODORO"]
    /\ isActive = FALSE
    /\ pomodoroCount = 0
    /\ isMuted = FALSE
    /\ settingsVisible = FALSE
    /\ prevSettingsVisible = FALSE
    /\ tempTimerDurations = [t \in TimerTypes |-> MinutesToString(timerDurations[t])]
    /\ vibrated = FALSE
    /\ lastOp = Op("init", NoTarget)
    /\ obs = ObsOff
    /\ interval = <<>>
    /\ StoreSettled

NextLive ==
    \/ tick
    \/ phaseCompletion
    \/ StartExplored(MaxLivePomodoros) /\ toggleTimer
    \/ resetTimer
    \/ \E type \in TimerTypes : switchTimerType(type)
    \/ toggleMute
    \/ openSettings
    \/ \E e \in LiveEdits : handleTempDurationChange(e[1], e[2])
    \/ handleSaveSettings
    \/ handleCancelSettings

\* the screen as wired, on short durations, every countdown run to its end.
\* The interval set by the timer effect fires as long as it is set, and the
\* effect of a render runs: weak fairness of tick and of phaseCompletion.
\* Nothing obliges the user to press anything.
SpecLive ==
    InitLive /\ [][NextLive]_vars /\ WF_vars(tick) /\ WF_vars(phaseCompletion)

\* ------------------------------------------------------------------ claims

\* C1: in every reachable state timeLeft (remainingSeconds) is at most the
\* committed duration of the current timer type, timerDurations[timerType].
C1_RemainingWithinDuration == timeLeft <= timerDurations[timerType]

\* C2: a phase completion increments pomodoroCount by exactly 1 when the
\* completed timer is the pomodoro, and leaves it unchanged when it is a break.
C2_FocusCompletionCounts ==
    [][lastOp'.op = "phaseCompletion" =>
          pomodoroCount' = IF timerType = "POMODORO" THEN pomodoroCount + 1
                           ELSE pomodoroCount]_vars

\* a break completed after a pomodoro was counted
C2_Witness ==
    lastOp.op = "phaseCompletion" /\ timerType = "POMODORO" /\ pomodoroCount >= 1

\* C3: when a pomodoro completes the next timer type is LONG_BREAK exactly
\* when the incremented count is a multiple of 4, else SHORT_BREAK; when a
\* break completes it is POMODORO; switchTimerType never changes the count.
C3_NextPhaseSelection ==
    [][/\ lastOp'.op = "phaseCompletion" =>
            timerType' = IF timerType = "POMODORO"
                         THEN (IF pomodoroCount' % 4 = 0 THEN "LONG_BREAK"
                               ELSE "SHORT_BREAK")
                         ELSE "POMODORO"
       /\ lastOp'.op = "switchTimerType" => pomodoroCount' = pomodoroCount]_vars

\* the fourth pomodoro completed into the long break
C3_Witness ==
    lastOp.op = "phaseCompletion" /\ timerType = "LONG_BREAK" /\ pomodoroCount = 4

\* C4: a phase completion happens on the running timer and leaves it stopped
\* with timeLeft at the committed duration of the next timer type; only
\* toggleTimer starts the timer, so a start separates any two completions.
C4_CompletionStopsTimer ==
    [][/\ lastOp'.op = "phaseCompletion" =>
            isActive /\ ~isActive' /\ timeLeft' = timerDurations'[timerType']
       /\ ~isActive /\ isActive' => lastOp'.op = "toggleTimer"]_vars

\* a completion into a timer type whose committed duration is not the default
C4_Witness ==
    /\ lastOp.op = "phaseCompletion"
    /\ timerDurations[timerType] # INITIAL_TIMER_TYPES[timerType]
    /\ timerDurations["POMODORO"] = SecondsPerMinute

\* C5: from a start at the full duration D > 0, with no user action since,
\* each tick takes one second off, so after D ticks timeLeft is 0 with the
\* completion due; the completion fires at most once, after exactly D ticks,
\* and leaves the timer stopped.
C5_CountdownCompletesOnce ==
    obs.on =>
        /\ obs.D > 0
        /\ obs.fired \in {0, 1}
        /\ obs.fired = 0 => isActive /\ timeLeft = obs.D - obs.ticks
        /\ obs.fired = 0 /\ obs.ticks = obs.D => CompletionPending
        /\ obs.fired = 1 => ~isActive /\ obs.ticks = obs.D

\* the default pomodoro counted down and completed
C5_Witness ==
    obs.on /\ obs.fired = 1 /\ obs.D = INITIAL_TIMER_TYPES["POMODORO"]

C7_SwitchResets ==
    lastOp.op = "switchTimerType" =>
        /\ ~isActive
        /\ timerType = lastOp.type
        /\ timeLeft = timerDurations[lastOp.type]

\* a running timer switched to another type
C7_Witness ==
    /\ lastOp.op = "switchTimerType"
    /\ lastOp.wasActive
    /\ lastOp.wasType # lastOp.type

\* C8: switchTimerType leaves pomodoroCount and timerDurations unchanged
\* and does not vibrate.
C8_SwitchCreditsNothing ==
    [][lastOp'.op = "switchTimerType" =>
          /\ pomodoroCount' = pomodoroCount
          /\ timerDurations' = timerDurations
          /\ ~vibrated']_vars

\* a running pomodoro, begun and not yet counted, interrupted by a switch
C8_Witness ==
    /\ lastOp.op = "switchTimerType"
    /\ lastOp.wasActive
    /\ lastOp.wasType = "POMODORO"
    /\ pomodoroCount = 0
    /\ timerDurations["POMODORO"] = SecondsPerMinute

\* the current timer type's duration is edited by this step
EditsCurrent ==
    IF lastOp'.op = "handleDurationChange"
    THEN lastOp'.type = timerType
    ELSE timerDurations'[timerType] # timerDurations[timerType]

\* C9: a duration edit, by handleDurationChange or by saving the settings,
\* sets timeLeft to the new duration when it edits the current timer type
\* and the timer is idle, and leaves timeLeft unchanged otherwise.
C9_EditResetsOnlyIdleCurrent ==
    [][lastOp'.op \in {"handleSaveSettings", "handleDurationChange"} =>
          timeLeft' = IF EditsCurrent /\ ~isActive
                      THEN timerDurations'[timerType] ELSE timeLeft]_vars

\* the text is an optionally signed decimal numeral, white space around it
RECURSIVE AllDigits(_)
AllDigits(s) == s = <<>> \/ (IsDigit(Head(s)) /\ AllDigits(Tail(s)))

RECURSIVE TrimRight(_)
TrimRight(s) ==
    IF s # <<>> /\ IsWhiteSpace(s[Len(s)]) THEN TrimRight(SubSeq(s, 1, Len(s) - 1))
    ELSE s

Unsigned(s) == IF s # <<>> /\ Head(s) \in {"-", "+"} THEN Tail(s) ELSE s

IsNumeral(text) ==
    LET s == Unsigned(TrimRight(SkipWhiteSpace(text)))
    IN  s # <<>> /\ AllDigits(s)

NumeralValue(text) ==
    LET t == TrimRight(SkipWhiteSpace(text))
        v == DigitPrefixValue(Unsigned(t), 0)
    IN  IF Head(t) = "-" THEN 0 - v ELSE v

\* the text is non-numeric, empty or negative
Malformed(text) == ~IsNumeral(text) \/ NumeralValue(text) < 0

\* C10: saving the settings closes the dialog and commits, for every field,
\* the default duration when its text is non-numeric, empty or negative, and
\* the minutes typed otherwise.
C10_MalformedFallsBackToDefault ==
    [][lastOp'.op = "handleSaveSettings" =>
          /\ ~settingsVisible'
          /\ \A t \in TimerTypes :
                timerDurations'[t] =
                    IF Malformed(tempTimerDurations[t]) THEN INITIAL_TIMER_TYPES[t]
                    ELSE NumeralValue(tempTimerDurations[t]) * SecondsPerMinute]_vars

\* C11: the interval callback fires only on a running timer with time left,
\* and takes exactly one second off the time the screen shows: no callback of
\* an interval set before a pause, a reset, a switch or a completion acts on
\* the stopped timer or writes back the time its closure captured; the time
\* left is never negative.
C11_TickOnlyWhileRunning ==
    /\ [](timeLeft >= 0)
    /\ [][lastOp'.op = "tick" =>
            /\ isActive /\ isActive'
            /\ timeLeft > 0
            /\ timeLeft' = timeLeft - 1]_vars

\* a tick took the last second off a running timer
C11_Witness ==
    /\ lastOp.op = "tick"
    /\ isActive
    /\ timeLeft = 0
    /\ interval = <<>>

\* C12: resetTimer, in any state, stops the timer and puts the time left back
\* to the committed duration of the current timer type; the timer type, the
\* pomodoro count and the committed durations are left as they were.
C12_ResetRestoresDuration ==
    [][lastOp'.op = "resetTimer" =>
          /\ isActive' = FALSE
          /\ timeLeft' = timerDurations[timerType]
          /\ timerType' = timerType
          /\ pomodoroCount' = pomodoroCount
          /\ timerDurations' = timerDurations]_vars

\* a running timer, on a duration that is not the default one, was reset
\* after a pomodoro had been counted
C12_Witness ==
    /\ lastOp.op = "resetTimer"
    /\ lastOp.wasActive
    /\ timerDurations[timerType] # INITIAL_TIMER_TYPES[timerType]
    /\ pomodoroCount > 0
    /\ timeLeft = timerDurations[timerType]
    /\ ~isActive

\* C13: the Start / Pause button starts an idle timer and pauses a running
\* one (the screen offers Start on an idle timer only, so there is no start
\* of a running timer); neither changes the timer type, the time left, the
\* pomodoro count or the committed durations, so a pause followed by a start
\* resumes from the same time left.
C13_StartPauseKeepTime ==
    [][lastOp'.op = "toggleTimer" =>
          /\ isActive' = ~isActive
          /\ timerType' = timerType
          /\ timeLeft' = timeLeft
          /\ pomodoroCount' = pomodoroCount
          /\ timerDurations' = timerDurations]_vars

\* a countdown that was paused part-way has been started again
C13_Witness ==
    /\ lastOp.op = "toggleTimer"
    /\ isActive
    /\ timeLeft > 0
    /\ timeLeft < timerDurations[timerType]
    /\ interval = <<timeLeft>>

\* C14: a step vibrates exactly when it is a phase completion with the mute
\* off: each completion vibrates once when not muted and not at all when
\* muted, and no other operation vibrates.
C14_VibratesOnUnmutedCompletion ==
    [][vibrated' <=> (lastOp'.op = "phaseCompletion" /\ ~isMuted)]_vars

\* a timer completed with the mute off, and vibrated
C14_Witness ==
    /\ lastOp.op = "phaseCompletion"
    /\ ~isMuted
    /\ vibrated
    /\ ~isActive

\* C15: addTask with a name that is empty once trimmed returns at once: the
\* step issues no call to the store and leaves the rows of the table and the
\* tasks of the screen as they were; no row of the table has an empty name.
C15_BlankNameAddsNothing ==
    /\ [](\A k \in 1..Len(rows) : rows[k].name # <<>>)
    /\ [][lastOp'.op = "addTask" /\ trim(lastOp'.arg) = <<>> =>
            /\ calls' = calls
            /\ rows' = rows
            /\ tasks' = tasks]_vars

\* addTask was called with a name of white space only on a screen that
\* shows a task
C15_Witness ==
    /\ lastOp.op = "addTask"
    /\ lastOp.arg = <<" ">>
    /\ calls = EmptyBag
    /\ Len(tasks) = 1
    /\ Len(rows) = 1

\* result lists every row of rs once, by priority descending and, within a
\* priority, by createdAt ascending
IsListing(result, rs) ==
    /\ Len(result) = Len(rs)
    /\ \A k \in 1..Len(rs) : \E i \in 1..Len(result) : result[i] = rs[k]
    /\ \A i, j \in 1..Len(result) :
          i < j =>
            \/ result[i].priority > result[j].priority
            \/ /\ result[i].priority = result[j].priority
               /\ result[i].createdAt <= result[j].createdAt

\* in result the row r comes before every row of a lower priority
BeforeLowerPriority(result, r) ==
    \E i \in 1..Len(result) :
        /\ result[i] = r
        /\ \A j \in 1..Len(result) : result[j].priority < r.priority => i < j

\* C16: the INSERT of an addTask with a non-empty name adds one row with the
\* trimmed name, the priority given, completed 0 (false once mapped) and
\* pomodoroSessions 0, and every listing of the table from then on has that
\* row before every row of a lower priority; the SELECT of fetchTasks always
\* returns all the rows, by priority descending, then createdAt ascending.
C16_AddedTaskIsListed ==
    /\ [](/\ SelectAll(rows) # {}
          /\ \A result \in SelectAll(rows) :
                /\ IsListing(result, rows)
                /\ \A k \in 1..Len(rows) : BeforeLowerPriority(result, rows[k]))
    /\ [][lastOp'.op = "addTaskInsert" =>
            \E c \in InFlight :
                /\ c.kind = "addTask" /\ c.pc = "insert"
                /\ c.name # <<>> /\ c.name = trim(c.name)
                /\ Len(rows') = Len(rows) + 1
                /\ SubSeq(rows', 1, Len(rows)) = rows
                /\ LET r == rows'[Len(rows')]
                   IN  /\ r.name = c.name
                       /\ r.priority = c.priority
                       /\ ToTask(r).completed = FALSE
                       /\ r.pomodoroSessions = 0
                       /\ \A k \in 1..Len(rows) : r.id # rows[k].id]_vars
    /\ [][lastOp'.op \in {"fetchTasksQuery", "loadTasksQuery"} =>
            \A c \in BagToSet(calls') :
                c.pc = "result" /\ ~BagIn(c, calls) => IsListing(c.result, rows)]_vars

\* fetchTasks has put on the screen a task of priority 2 before the task of
\* priority 1 that was added before it
C16_Witness ==
    /\ lastOp.op = "fetchTasksResolve"
    /\ Len(tasks) = 2
    /\ tasks[1].id = 2 /\ tasks[1].priority = 2 /\ tasks[1].name = <<"a">>
    /\ tasks[2].id = 1 /\ tasks[2].priority = 1
    /\ tasks[1].completed = FALSE /\ tasks[1].pomodoroSessions = 0

\* C17: an addTask whose INSERT fails, or whose SELECT of the new row fails
\* after the INSERT was made, ends in its catch: the failing step, and every
\* step of the call before it, leaves the tasks of the screen as they were
\* and rejects no promise; a failed INSERT also leaves the rows as they were.
C17_FailedAddKeepsTasks ==
    /\ [][lastOp'.op \in {"addTask", "addTaskInsert", "addTaskInsertFailed",
                          "addTaskSelectFailed"} =>
            /\ tasks' = tasks
            /\ uncaught' = uncaught]_vars
    /\ [][lastOp'.op = "addTaskInsertFailed" => rows' = rows]_vars
    /\ [][lastOp'.op \in {"addTaskInsertFailed", "addTaskSelectFailed"} =>
            BagCardinality(calls') = BagCardinality(calls) - 1]_vars

\* the SELECT of the new row failed after its INSERT: the table has two rows,
\* the screen the one task it had
C17_Witness ==
    /\ lastOp.op = "addTaskSelectFailed"
    /\ Len(rows) = 2
    /\ Len(tasks) = 1
    /\ calls = EmptyBag
    /\ ~uncaught

\* C18: no read of the tasks table, the load on mount or a later fetch, ends
\* in a promise rejected with no handler: every failure of the SELECT is
\* caught.
C18_ReadFailuresCaught == ~uncaught

MigrationOps ==
    {"migrateRead", "migrateCreate", "migrateSetVersion",
     "migrateReadFailed", "migrateCreateFailed", "migrateSetVersionFailed"}

\* C19: a migration that returned has left the tasks table present and
\* user_version at 1, whatever the store it started from: a new one, one
\* already migrated, or one where an earlier run was cut short after the table
\* was created; the table is created and the version written only from
\* version 0, a run on a store at version 1 or more changes nothing, and no
\* step of a migration changes the rows or removes the table.
C19_MigrationIdempotent ==
    /\ [](mig.pc = "done" /\ app # "failed" =>
            tableExists /\ userVersion = DATABASE_VERSION)
    /\ [][lastOp'.op \in {"migrateCreate", "migrateSetVersion"} =>
            userVersion = 0]_vars
    /\ [][lastOp'.op \in MigrationOps =>
            /\ rows' = rows
            /\ tableExists => tableExists'
            /\ userVersion' >= userVersion
            /\ userVersion >= DATABASE_VERSION =>
                  userVersion' = userVersion /\ tableExists' = tableExists]_vars

\* the app was launched again on a migrated store that holds two rows: the
\* migration read the version and returned
C19_Witness ==
    /\ lastOp.op = "migrateRead"
    /\ mig.pc = "done"
    /\ mig.currentDbVersion = DATABASE_VERSION
    /\ Len(rows) = 2
    /\ tableExists
    /\ userVersion = DATABASE_VERSION

TimerOps == {"tick", "phaseCompletion", "toggleTimer", "resetTimer", "switchTimerType"}

CallOps ==
    {"addTask", "addTaskInsert", "addTaskInsertFailed", "addTaskSelect",
     "addTaskSelectFailed", "loadTasksQuery", "loadTasksQueryFailed",
     "loadTasksResolve", "fetchTasksQuery", "fetchTasksQueryFailed",
     "fetchTasksResolve"}

\* C20: the timer and the task store do not touch each other's state: a
\* start, pause, reset, switch, tick or completion leaves the calls in flight,
\* the rows and the tasks as they are (no call is cancelled), and every step
\* of addTask or of the load leaves the timer type, the time left, isActive,
\* the pomodoro count, the committed durations and the interval as they are;
\* the step that resolves a call changes, of the store, only the tasks of the
\* screen.
C20_TimerAndStoreIndependent ==
    /\ [][lastOp'.op \in TimerOps =>
            /\ calls' = calls
            /\ rows' = rows
            /\ tasks' = tasks]_vars
    /\ [][lastOp'.op \in CallOps =>
            /\ timerType' = timerType
            /\ timeLeft' = timeLeft
            /\ isActive' = isActive
            /\ pomodoroCount' = pomodoroCount
            /\ timerDurations' = timerDurations
            /\ interval' = interval]_vars
    /\ [][lastOp'.op \in {"addTaskSelect", "loadTasksResolve", "fetchTasksResolve"} =>
            /\ rows' = rows
            /\ userVersion' = userVersion
            /\ tableExists' = tableExists]_vars

\* a pomodoro completed while an addTask was between its INSERT and its
\* SELECT: the call is still in flight
C20_Witness ==
    /\ lastOp.op = "phaseCompletion"
    /\ pomodoroCount = 1
    /\ \E c \in InFlight : c.kind = "addTask" /\ c.pc = "select"
    /\ Len(rows) = 1
    /\ tasks = <<>>

\* C21: the progress ratio is 0 when the time left is the committed duration,
\* 1 when the time left is 0 of a positive duration, 0 when the duration is
\* 0, and in every state it lies between 0 and 1.
C21_ProgressWithinUnit ==
    LET totalTime == timerDurations[timerType]
    IN  /\ getProgress.den > 0
        /\ timeLeft = totalTime => getProgress.num = 0
        /\ timeLeft = 0 /\ totalTime > 0 => getProgress.num = getProgress.den
        /\ totalTime = 0 => getProgress.num = 0
        /\ 0 <= getProgress.num
        /\ getProgress.num <= getProgress.den

RECURSIVE DigitsValue(_)
DigitsValue(s) ==
    IF s = <<>> THEN 0
    ELSE 10 * DigitsValue(SubSeq(s, 1, Len(s) - 1)) + DigitValue(s[Len(s)])

\* text is minutes, a colon, seconds: the seconds field is the two digits of
\* s mod 60, the minutes field the decimal digits of floor(s / 60) with no
\* clamping, of a length that satisfies MinutesWidthOk
IsClockText(text, s, MinutesWidthOk(_)) ==
    \E k \in 1..Len(text) :
        LET mm == SubSeq(text, 1, k - 1)
            ss == SubSeq(text, k + 1, Len(text))
        IN  /\ text[k] = ":"
            /\ mm # <<>> /\ AllDigits(mm)
            /\ Len(ss) = 2 /\ AllDigits(ss)
            /\ DigitsValue(ss) = s % 60
            /\ DigitsValue(ss) \in 0..59
            /\ DigitsValue(mm) = s \div 60
            /\ MinutesWidthOk(mm)

\* C22 as stated: the rendered time is MM:SS with minutes = floor(s / 60) and
\* seconds = s mod 60, each of two digits, the minute field of two digits
\* also from 60 minutes on.
C22_TwoDigitMinutes ==
    lastOp.op = "formatTime" =>
        IsClockText(lastOp.arg, timeLeft, LAMBDA mm : Len(mm) = 2)

\* C22: the rendered time is minutes = floor(s / 60), a colon, and
\* seconds = s mod 60 in two digits; the minute field is zero-padded to two
\* digits and has more than two, with no leading zero, from 100 minutes on.
C22_PaddedMinutes ==
    lastOp.op = "formatTime" =>
        IsClockText(lastOp.arg, timeLeft,
                    LAMBDA mm : Len(mm) >= 2 /\ (Len(mm) > 2 => mm[1] # "0"))

\* 100 minutes and 5 seconds are rendered as 100:05
C22_Witness ==
    /\ lastOp.op = "formatTime"
    /\ timeLeft = 6005
    /\ lastOp.arg = <<"1", "0", "0", ":", "0", "5">>

\* C23: Cancel, or the dismissal of the dialog, leaves the committed
\* durations, the time left, the timer type, isActive and the pomodoro count
\* as they are, and every opening of the dialog sets the draft to the text of
\* the committed durations: an edit that was discarded is not in the draft a
\* later Save commits.
C23_CancelDiscardsDraft ==
    /\ [][lastOp'.op = "handleCancelSettings" =>
            /\ timerDurations' = timerDurations
            /\ timeLeft' = timeLeft
            /\ timerType' = timerType
            /\ isActive' = isActive
            /\ pomodoroCount' = pomodoroCount
            /\ ~settingsVisible']_vars
    /\ [][lastOp'.op = "openSettings" =>
            tempTimerDurations' =
                [t \in TimerTypes |-> MinutesToString(timerDurations'[t])]]_vars

\* the dialog was cancelled on an edited draft: the draft left behind is not
\* the text of the committed durations
C23_Witness ==
    /\ lastOp.op = "handleCancelSettings"
    /\ ~settingsVisible
    /\ \E t \in TimerTypes :
          tempTimerDurations[t] # MinutesToString(timerDurations[t])
    /\ timerDurations = INITIAL_TIMER_TYPES

\* C24: the pomodoro count changes only in the completion of a pomodoro,
\* which adds 1 to it: no other step, of the timer, the mute, the settings or
\* the store, changes it, so it never decreases and is never reset to 0.
C24_CountChangesOnlyAtCompletion ==
    [][pomodoroCount' # pomodoroCount =>
          /\ lastOp'.op = "phaseCompletion"
          /\ timerType = "POMODORO"
          /\ pomodoroCount' = pomodoroCount + 1]_vars

\* a counted pomodoro is still counted after a Save of the settings
C24_Witness ==
    /\ lastOp.op = "handleSaveSettings"
    /\ pomodoroCount = 1

\* C25: the tasks of the screen never hold two entries with the same id,
\* however the calls of addTask, of the load and of fetchTasks interleave.
C25_NoDuplicateIds ==
    \A i, j \in 1..Len(tasks) : i # j => tasks[i].id # tasks[j].id

\* C26: once no call is in flight, every task that addTask appended (its
\* INSERT and its SELECT succeeded) is among the tasks of the screen.
C26_NoAddedTaskLost ==
    calls = EmptyBag =>
        \A id \in added : \E i \in 1..Len(tasks) : tasks[i].id = id

\* C27: with the load done and every addTask since resolved, all rows on the
\* screen, the tasks of the screen are a listing of the table as fetchTasks
\* would return it at that moment: the same records in the order priority
\* descending, createdAt ascending.
C27_TasksEqualListing ==
    /\ app = "mounted"
    /\ calls = EmptyBag
    /\ ~uncaught
    /\ lastOp.op \in {"addTaskSelect", "loadTasksResolve"}
    /\ Len(tasks) = Len(rows)
    => tasks \in { ToTasks(result) : result \in SelectAll(rows) }

C29_RunningEventuallyStops == isActive ~> ~isActive

\* a countdown of one minute, begun at the full duration, ran to its end and
\* the completion stopped the timer
C29_Witness ==
    /\ obs.on /\ obs.D = SecondsPerMinute /\ obs.ticks = obs.D /\ obs.fired = 1
    /\ lastOp.op = "phaseCompletion"
    /\ ~isActive

\* a timer started on a duration of 0 and stopped by the completion, no tick
\* in between
C29_WitnessZero ==
    /\ lastOp.op = "phaseCompletion"
    /\ ~isActive
    /\ pomodoroCount = 1
    /\ \A t \in TimerTypes : timerDurations[t] = 0

====
